---- MODULE Spec2Model ----
(***************************************************************************)
(* Model of the Telegram shop bot (src/bot.py and src/tg_bot.py).          *)
(*                                                                         *)
(* The repository holds two revisions of the same bot.  The variable       *)
(* `variant` says which file is running; every handler is translated from  *)
(* the file named by `variant`.                                            *)
(*                                                                         *)
(* Handlers are coroutines on one asyncio event loop.  aiogram 2 starts    *)
(* the handler of every update as soon as the update arrives, so several   *)
(* handlers, also of one user, are in flight together and interleave at    *)
(* their suspension points (the awaits on the database and on Telegram).   *)
(* Each action below is the code between two suspension points.  The       *)
(* oracle calls use the blocking `requests.get`, so they never suspend.    *)
(*                                                                         *)
(* Amounts are integers in satoshi (1e-8 BTC).                             *)
(***************************************************************************)
EXTENDS Integers, Sequences, FiniteSets, TLC

\* ------------------------------------------------------------------ bounds
MaxTasks == 3        \* handler invocations in one behaviour
MaxInFlight == 2     \* handler invocations in flight together
MaxTx    == 1        \* transactions the ledger oracle knows at most
MaxQty   == 1        \* largest initial quantity of a location
MaxFaults == 1       \* awaited calls that raise in one behaviour

\* ------------------------------------------------------- program constants
Satoshi         == 100000000   \* 10**8 satoshi per BTC
PaymentWindow   == 7200        \* seconds a transaction stays eligible
RateWindow      == 300         \* timedelta(minutes=5)
DecimalPrec     == 8           \* getcontext().prec
MantissaBits    == 53          \* significand of a Python float

Users    == {"u1", "u2"}
LocIds   == {1}
ProdIds  == {1}
BITCOIN_WALLET == "wallet"
Addresses == {BITCOIN_WALLET, "other"}
Amounts  == {10000000, 30000000}      \* 0.10 and 0.30 BTC
ListPrice == 50000000                 \* the product's price in the catalogue
RubPrices == {0, 2}                   \* price_rub: 0 is NULL; thousands of RUB
Rates    == {5}                       \* thousands of RUB per BTC
TaskIds  == 1..MaxTasks

NoRow  == [none |-> TRUE]
NoData == [empty |-> TRUE]
None   == "None"
NoTime == -1                          \* last_updated is None
NoRate == 0                           \* rate is None

VARIABLES
    variant,             \* "bot" (src/bot.py) or "tg_bot" (src/tg_bot.py)
    now,                 \* datetime.now(), seconds
    ledger,              \* what blockchain.info knows: sequence of transactions
    products,            \* table products: id -> row or NoRow
    locations,           \* table locations: id -> row or NoRow
    orders,              \* table orders, in insertion order
    stocked,             \* quantity each location was stocked with
    lock,                \* row locks of table locations: id -> holding task or 0
    fsm_state,           \* MemoryStorage: state of each user's session
    fsm_data,            \* MemoryStorage: data of each user's session
    tasks,               \* handler invocations: id -> record
    ntasks,              \* handler invocations started so far
    faults,              \* awaited calls that have raised so far
    outbox,              \* the last message the bot sent to each user
    bitcoin_rate_cache   \* [rate, last_updated]

vars == <<variant, now, ledger, products, locations, orders, stocked, lock,
          fsm_state, fsm_data, tasks, ntasks, faults, outbox,
          bitcoin_rate_cache>>

\* ------------------------------------------------------------ number model
(* A number is sat * 1e-8 + err * d for an infinitesimal d > 0: a decimal    *)
(* on the satoshi grid (err = 0) or the float nearest to one (err is the     *)
(* sign of the float's rounding error; the error itself is below 1e-14 for  *)
(* every amount under 2^31 satoshi, far less than one satoshi).              *)
Exact(n) == [sat |-> n, err |-> 0]

RECURSIVE Mantissa(_, _, _, _)
(* Binary long division of r/d (r < d): produce `bits` more bits, then round *)
(* to nearest, ties to even.  Result: sign of (rounded - exact).             *)
Mantissa(r, d, bits, last) ==
    IF bits = 0
    THEN IF r = 0 THEN 0
         ELSE IF 2 * r < d THEN -1
         ELSE IF 2 * r > d THEN 1
         ELSE IF last = 1 THEN 1 ELSE -1
    ELSE IF 2 * r >= d
         THEN Mantissa(2 * r - d, d, bits - 1, 1)
         ELSE Mantissa(2 * r, d, bits - 1, 0)

RECURSIVE RoundErrSign(_, _)
(* Sign of float(n/d) - n/d for n, d > 0.                                    *)
RoundErrSign(n, d) ==
    IF n < d THEN RoundErrSign(2 * n, d)
    ELSE IF n >= 2 * d THEN RoundErrSign(n, 2 * d)
    ELSE Mantissa(n - d, d, MantissaBits - 1, 1)

RECURSIVE Gcd(_, _)
Gcd(a, b) == IF b = 0 THEN a ELSE Gcd(b, a % b)

\* float(x) of a decimal x on the satoshi grid; int / 100000000 in bot.py
ToFloat(n) ==
    IF n = 0 THEN Exact(0)
    ELSE LET g == Gcd(n, Satoshi)
         IN  [sat |-> n, err |-> RoundErrSign(n \div g, Satoshi \div g)]

RECURSIVE Pow10(_)
Pow10(k) == IF k = 0 THEN 1 ELSE 10 * Pow10(k - 1)

RECURSIVE Digits(_)
Digits(n) == IF n < 10 THEN 1 ELSE 1 + Digits(n \div 10)

\* round-half-even of n to a multiple of unit
RoundHalfEven(n, unit) ==
    LET q == n \div unit
        r == n % unit
    IN  IF 2 * r > unit \/ (2 * r = unit /\ q % 2 = 1)
        THEN (q + 1) * unit ELSE q * unit

\* Decimal(v) / Decimal(10**8) under getcontext().prec = 8, in satoshi
DecimalDivSatoshi(v) ==
    IF Digits(v) <= DecimalPrec THEN v
    ELSE RoundHalfEven(v, Pow10(Digits(v) - DecimalPrec))

\* x >= y on numbers
NumGe(x, y) == x.sat > y.sat \/ (x.sat = y.sat /\ x.err >= y.err)

\* Decimal(str(price_rub)) / btc_rate under prec = 8, in satoshi.  The result
\* is on the satoshi grid when the quotient is at least 0.1 BTC.
RubToBtc(rub, rate) ==
    LET scaled == rub * Satoshi
        k == Digits(scaled \div rate) - DecimalPrec
    IN  RoundHalfEven(scaled, rate * Pow10(IF k > 0 THEN k ELSE 0)) \div rate

\* --------------------------------------------------------------- the oracle
OracleReply(txs) == [ok |-> TRUE, txs |-> txs]
OracleError == [ok |-> FALSE, txs |-> << >>]

\* output['value'] converted to BTC, as each file does it
OutputValue(v) ==
    IF variant = "bot" THEN ToFloat(v) ELSE Exact(DecimalDivSatoshi(v))

RECURSIVE ScanOutputs(_, _, _, _)
ScanOutputs(out, i, address, amount) ==
    IF i > Len(out) THEN FALSE
    ELSE IF out[i].addr = address /\ NumGe(OutputValue(out[i].value), amount)
         THEN TRUE
         ELSE ScanOutputs(out, i + 1, address, amount)

TooOld(tx, clock) == clock - tx.time > PaymentWindow

RECURSIVE ScanTxs(_, _, _, _, _)
ScanTxs(txs, i, address, amount, clock) ==
    IF i > Len(txs) THEN FALSE
    ELSE IF TooOld(txs[i], clock)
         THEN ScanTxs(txs, i + 1, address, amount, clock)
         ELSE IF ScanOutputs(txs[i].out, 1, address, amount)
              THEN TRUE
              ELSE ScanTxs(txs, i + 1, address, amount, clock)

\* check_bitcoin_payment(address, amount) against the oracle's response
check_bitcoin_payment(resp, address, amount, clock) ==
    IF ~resp.ok THEN FALSE
    ELSE ScanTxs(resp.txs, 1, address, amount, clock)
\* ----------------------------------------------------------------- schema
ProductRow(price, price_rub) == [price |-> price, price_rub |-> price_rub]
LocationRow(p, q) == [product_id |-> p, quantity |-> q]
\* a handler invocation and its locals; `resent` is not in the program: it
\* says that the message arrived after an order of its selection was recorded
NoTask == [h |-> "none", user |-> None, pc |-> "free", loc |-> 0,
           data |-> NoData, paid |-> FALSE, reply |-> "", resent |-> FALSE]

\* the fields update_data stores; `sel` is not in the program: it names the
\* process_location_selection invocation that stored them
OrderData(p, l, a, t) ==
    [product_id |-> p, location_id |-> l,
     payment_address |-> BITCOIN_WALLET, amount |-> a, sel |-> t]

\* bot.py has one price column; tg_bot.py has price_btc and a nullable price_rub
ProductChoices ==
    {ProductRow(ListPrice, rub) :
        rub \in IF variant = "tg_bot" THEN RubPrices ELSE {0}}

Init ==
    /\ variant \in {"bot", "tg_bot"}
    /\ now = 0
    /\ ledger = << >>
    /\ \E row \in ProductChoices : products = [p \in ProdIds |-> row]
    /\ stocked = [l \in LocIds |-> IF l = 1 THEN MaxQty ELSE 0]
    /\ locations = [l \in LocIds |-> LocationRow(1, stocked[l])]
    /\ orders = << >>
    /\ lock = [loc |-> [l \in LocIds |-> 0], prod |-> [p \in ProdIds |-> 0]]
    /\ fsm_state = [u \in Users |-> None]
    /\ fsm_data = [u \in Users |-> NoData]
    /\ tasks = [t \in TaskIds |-> NoTask]
    /\ ntasks = 0
    /\ faults = 0
    /\ outbox = [u \in Users |-> ""]
    /\ bitcoin_rate_cache = [rate |-> NoRate, last_updated |-> NoTime]

\* ------------------------------------------------------------ environment
Tx(time, out) == [time |-> time, out |-> out]
Output(addr, value) == [addr |-> addr, value |-> value]

\* the oracle comes to report a transaction that pays the list price to the
\* shop's wallet, made just now or before the payment window
Pay ==
    /\ Len(ledger) < MaxTx
    /\ \E time \in {now, now - PaymentWindow - 1} :
          ledger' = Append(ledger,
                      Tx(time, <<Output(BITCOIN_WALLET, ListPrice)>>))
    /\ UNCHANGED <<variant, now, products, locations, orders, stocked, lock,
                   fsm_state, fsm_data, tasks, ntasks, faults,
                   outbox, bitcoin_rate_cache>>

\* an awaited call of the database, of Telegram or of the oracle succeeds
\* (ok) or raises; at most MaxFaults calls raise in one behaviour
Outcome(ok) ==
    IF ok THEN faults' = faults
    ELSE faults < MaxFaults /\ faults' = faults + 1

\* ------------------------------------------------------------ FSM storage
FinishKept(u) == UNCHANGED <<fsm_state, fsm_data>>

\* state.finish(): the state is reset and the data dropped
Finish(u) ==
    /\ fsm_state' = [fsm_state EXCEPT ![u] = None]
    /\ fsm_data' = [fsm_data EXCEPT ![u] = NoData]

InFlight == {t \in TaskIds : tasks[t].pc \notin {"free", "done"}}

\* aiogram may start one more handler
CanStart == ntasks < MaxTasks /\ Cardinality(InFlight) < MaxInFlight

At(t, h, pc) == tasks[t].h = h /\ tasks[t].pc = pc

\* the task continues at pc
Goto(t, pc) == tasks' = [tasks EXCEPT ![t].pc = pc] /\ UNCHANGED outbox

\* the bot sends message m to the user of task t
Send(t, m) == outbox' = [outbox EXCEPT ![tasks[t].user] = m]

\* the handler returns; its locals are gone
Done == [NoTask EXCEPT !.pc = "done"]

\* the handler answers m and returns
Return(t, m) == tasks' = [tasks EXCEPT ![t] = Done] /\ Send(t, m)

AnswerSilent(t, m) ==
    tasks' = [tasks EXCEPT ![t].pc = "close", ![t].reply = m]
    /\ UNCHANGED outbox

\* the handler answers m and goes on to its finally block
Answer(t, m) ==
    tasks' = [tasks EXCEPT ![t].pc = "close", ![t].reply = m] /\ Send(t, m)

\* ------------------------------------------------------------- row locks
Free(holder, t) == holder = 0 \/ holder = t

ReleaseNone(t) == UNCHANGED lock

Release(t) ==
    lock' = [loc  |-> [l \in DOMAIN lock.loc |->
                         IF lock.loc[l] = t THEN 0 ELSE lock.loc[l]],
             prod |-> [p \in DOMAIN lock.prod |->
                         IF lock.prod[p] = t THEN 0 ELSE lock.prod[p]]]

\* ---------------------------------------------------------- exchange rate
CacheFreshLoose ==
    /\ bitcoin_rate_cache.last_updated # NoTime
    /\ now - bitcoin_rate_cache.last_updated <= RateWindow

\* the condition under which get_bitcoin_rate returns the cached rate
CacheFresh ==
    /\ bitcoin_rate_cache.last_updated # NoTime
    /\ now - bitcoin_rate_cache.last_updated < RateWindow

\* ------------------------------------------- process_location_selection
\* a user whose session is idle presses the button of location l;
\* conn = await create_db_connection().  The users are interchangeable: u1
\* names the one whose update arrives first.
pls_start(u, l) ==
    /\ fsm_state[u] = None
    /\ u = "u1" \/ ntasks > 0
    /\ CanStart
    /\ ntasks' = ntasks + 1
    /\ \E ok \in BOOLEAN :
          /\ Outcome(ok)
          /\ tasks' = [tasks EXCEPT ![ntasks + 1] =
                IF ok
                THEN [NoTask EXCEPT !.h = "pls", !.user = u, !.pc = "fetch",
                                    !.loc = l]
                ELSE Done]
          /\ outbox' = IF ok THEN outbox ELSE [outbox EXCEPT ![u] = "db_error"]
    /\ UNCHANGED <<variant, now, ledger, products, locations, orders, stocked,
                   lock, fsm_state, fsm_data, bitcoin_rate_cache>>

\* bot.py: fetchrow and the availability check
pls_fetch_bot(t) ==
    LET l == tasks[t].loc
        row == locations[l]
    IN  /\ variant = "bot"
        /\ At(t, "pls", "fetch")
        /\ \E ok \in BOOLEAN :
              /\ Outcome(ok)
              /\ IF ~ok THEN Return(t, "error")
                 ELSE IF row = NoRow \/ row.quantity <= 0
                      THEN Return(t, "unavailable")
                      ELSE /\ tasks' = [tasks EXCEPT ![t].pc = "edit",
                                       ![t].data = OrderData(row.product_id, l,
                                           Exact(products[row.product_id].price),
                                           t)]
                           /\ UNCHANGED outbox
        /\ UNCHANGED <<variant, now, ledger, products, locations, orders,
                       stocked, lock, fsm_state, fsm_data, ntasks,
                       bitcoin_rate_cache>>

\* tg_bot.py: amount_btc as update_data stores it, a float
Quote(prow, rate) ==
    ToFloat(IF prow.price_rub # 0 THEN RubToBtc(prow.price_rub, rate)
            ELSE prow.price)

\* get_bitcoin_rate(): the value returned and the cache afterwards, when the
\* oracle would answer `fetched` (NoRate: the request raises)
RateReturnedStale(fetched) ==
    IF CacheFresh \/ fetched = NoRate THEN bitcoin_rate_cache.rate ELSE fetched

RateReturned(fetched) ==
    IF CacheFresh THEN bitcoin_rate_cache.rate ELSE fetched

CacheAfterRateOnly(fetched) ==
    IF CacheFresh \/ fetched = NoRate THEN bitcoin_rate_cache
    ELSE [bitcoin_rate_cache EXCEPT !.rate = fetched]

CacheAfter(fetched) ==
    IF CacheFresh \/ fetched = NoRate THEN bitcoin_rate_cache
    ELSE [rate |-> fetched, last_updated |-> now]

\* tg_bot.py: BEGIN, SELECT ... FOR UPDATE (which waits for the locks of the
\* location and the product row), the availability check, get_bitcoin_rate()
\* and update_data()
pls_fetch_tg(t) ==
    LET l == tasks[t].loc
        u == tasks[t].user
        row == locations[l]
    IN  /\ variant = "tg_bot"
        /\ At(t, "pls", "fetch")
        /\ \/ /\ Outcome(FALSE)
              /\ Return(t, "error")
              /\ UNCHANGED <<lock, fsm_data, bitcoin_rate_cache>>
           \/ /\ row = NoRow
              /\ Outcome(TRUE)
              /\ Return(t, "unavailable")
              /\ UNCHANGED <<lock, fsm_data, bitcoin_rate_cache>>
           \/ /\ row # NoRow
              /\ Free(lock.loc[l], t) /\ Free(lock.prod[row.product_id], t)
              /\ lock' = [loc  |-> [lock.loc EXCEPT ![l] = t],
                          prod |-> [lock.prod EXCEPT ![row.product_id] = t]]
              /\ IF row.quantity <= 0
                 THEN /\ Outcome(TRUE)
                      /\ Answer(t, "unavailable")
                      /\ UNCHANGED <<fsm_data, bitcoin_rate_cache>>
                 ELSE \E fetched \in Rates \cup {NoRate} :
                        LET rate == RateReturned(fetched)
                            d == OrderData(row.product_id, l,
                                     Quote(products[row.product_id], rate), t)
                        IN  /\ Outcome(CacheFresh \/ fetched # NoRate)
                            /\ bitcoin_rate_cache' = CacheAfter(fetched)
                            /\ IF rate = NoRate
                               THEN /\ Answer(t, "rate_error")
                                    /\ UNCHANGED fsm_data
                               ELSE /\ tasks' = [tasks EXCEPT ![t].pc = "edit",
                                                                ![t].data = d]
                                    /\ fsm_data' = [fsm_data EXCEPT ![u] = d]
                                    /\ UNCHANGED outbox
        /\ UNCHANGED <<variant, now, ledger, products, locations, orders,
                       stocked, fsm_state, ntasks>>

\* bot.py: message.edit_text(the quote), then the state is set and the data
\* stored; the handler ends
pls_edit_bot(t) ==
    LET u == tasks[t].user
    IN  /\ variant = "bot"
        /\ At(t, "pls", "edit")
        /\ \E ok \in BOOLEAN :
              /\ Outcome(ok)
              /\ IF ok
                 THEN /\ fsm_state' = [fsm_state EXCEPT ![u] = "waiting_payment"]
                      /\ fsm_data' = [fsm_data EXCEPT ![u] = tasks[t].data]
                      /\ Return(t, "quote")
                 ELSE /\ Return(t, "error")
                      /\ UNCHANGED <<fsm_state, fsm_data>>
        /\ UNCHANGED <<variant, now, ledger, products, locations, orders,
                       stocked, lock, ntasks, bitcoin_rate_cache>>

\* tg_bot.py: message.edit_text(the quote), then the state is set
pls_edit_tg(t) ==
    LET u == tasks[t].user
    IN  /\ variant = "tg_bot"
        /\ At(t, "pls", "edit")
        /\ \E ok \in BOOLEAN :
              /\ Outcome(ok)
              /\ IF ok
                 THEN /\ fsm_state' = [fsm_state EXCEPT ![u] = "waiting_payment"]
                      /\ Answer(t, "quote")
                 ELSE /\ Answer(t, "error")
                      /\ UNCHANGED fsm_state
        /\ UNCHANGED <<variant, now, ledger, products, locations, orders,
                       stocked, lock, fsm_data, ntasks, bitcoin_rate_cache>>

pls_close_reserving(t) ==
    /\ At(t, "pls", "close")
    /\ tasks' = [tasks EXCEPT ![t] = Done]
    /\ UNCHANGED outbox
    /\ Release(t)
    /\ locations' = [l \in LocIds |->
                       IF l = tasks[t].loc /\ locations[l] # NoRow
                       THEN [locations[l] EXCEPT !.quantity = @ - 1]
                       ELSE locations[l]]
    /\ UNCHANGED <<variant, now, ledger, products, orders, stocked,
                   fsm_state, fsm_data, ntasks, faults, bitcoin_rate_cache>>

\* tg_bot.py: the transaction ends, which releases its locks
pls_close(t) ==
    /\ At(t, "pls", "close")
    /\ tasks' = [tasks EXCEPT ![t] = Done]
    /\ UNCHANGED outbox
    /\ Release(t)
    /\ UNCHANGED <<variant, now, ledger, products, locations, orders, stocked,
                   fsm_state, fsm_data, ntasks, faults, bitcoin_rate_cache>>

\* ----------------------------------------------------------- check_payment
\* an order of the selection that stored d is in the table
Settled(d) ==
    IF d = NoData THEN FALSE
    ELSE \E i \in 1..Len(orders) : orders[i].sel = d.sel

\* a user whose session is in waiting_payment sends any message; the handler
\* begins by reading the session's data
cp_start(u) ==
    /\ fsm_state[u] = "waiting_payment"
    /\ CanStart
    /\ ntasks' = ntasks + 1
    /\ tasks' = [tasks EXCEPT ![ntasks + 1] =
                   [NoTask EXCEPT !.h = "cp", !.user = u, !.pc = "connect",
                                  !.data = fsm_data[u],
                                  !.resent = Settled(fsm_data[u])]]
    /\ UNCHANGED outbox
    /\ UNCHANGED <<variant, now, ledger, products, locations, orders, stocked,
                   lock, fsm_state, fsm_data, faults, bitcoin_rate_cache>>

MustReturnNever(is_paid) == FALSE

\* if not is_paid: the handler must answer and return
MustReturn(is_paid) == ~is_paid

\* the branch taken on is_paid
Verified(t, is_paid) ==
    IF MustReturn(is_paid)
    THEN /\ tasks' = [tasks EXCEPT ![t].paid = is_paid, ![t].pc = "close",
                                   ![t].reply = "no_payment"]
         /\ Send(t, "no_payment")
    ELSE /\ tasks' = [tasks EXCEPT ![t].paid = is_paid,
                     ![t].pc = IF variant = "bot" THEN "fetch" ELSE "update"]
         /\ UNCHANGED outbox

\* conn = await create_db_connection(); is_paid = check_bitcoin_payment(...)
cp_connect(t) ==
    LET u == tasks[t].user
        d == tasks[t].data
    IN  /\ At(t, "cp", "connect")
        /\ \/ /\ Outcome(FALSE)
              /\ Return(t, "db_error")
              /\ Finish(u)
           \/ /\ \E resp \in {OracleError, OracleReply(ledger)} :
                    /\ Outcome(resp.ok)
                    /\ IF d = NoData
                       THEN Answer(t, "error")
                       ELSE Verified(t, check_bitcoin_payment(resp,
                                           d.payment_address, d.amount, now))
              /\ UNCHANGED <<fsm_state, fsm_data>>
        /\ UNCHANGED <<variant, now, ledger, products, locations, orders,
                       stocked, lock, ntasks, bitcoin_rate_cache>>

\* bot.py: fetchrow of the product's content
cp_fetch(t) ==
    LET u == tasks[t].user
        d == tasks[t].data
    IN  /\ variant = "bot"
        /\ At(t, "cp", "fetch")
        /\ \E ok \in BOOLEAN :
              /\ Outcome(ok)
              /\ IF ~ok
                 THEN Answer(t, "error") /\ UNCHANGED <<fsm_state, fsm_data>>
                 ELSE IF locations[d.location_id] = NoRow
                      THEN Answer(t, "not_found") /\ Finish(u)
                      ELSE Goto(t, "update") /\ UNCHANGED <<fsm_state, fsm_data>>
        /\ UNCHANGED <<variant, now, ledger, products, locations, orders,
                       stocked, lock, ntasks, bitcoin_rate_cache>>

\* UPDATE locations SET quantity = quantity - 1 WHERE id = l
Decrement(l) ==
    IF locations[l] = NoRow THEN locations
    ELSE [locations EXCEPT ![l].quantity = @ - 1]

\* the row an INSERT INTO orders adds; `by` and `sel` are not columns: they
\* name the inserting invocation and the selection it settles
OrderRow(t) ==
    LET d == tasks[t].data
    IN  [product_id |-> d.product_id, location_id |-> d.location_id,
         user_id |-> tasks[t].user, amount |-> d.amount.sat, by |-> t,
         sel |-> d.sel]

RecordedNot(t) == orders

\* the orders table after INSERT INTO orders by task t
Recorded(t) == Append(orders, OrderRow(t))

ReferencesUnchecked(d) == TRUE

\* the foreign keys of an orders row
References(d) ==
    products[d.product_id] # NoRow /\ locations[d.location_id] # NoRow

\* bot.py: the UPDATE, committed on its own
cp_update_bot(t) ==
    /\ variant = "bot"
    /\ At(t, "cp", "update")
    /\ \E ok \in BOOLEAN :
          /\ Outcome(ok)
          /\ IF ok
             THEN /\ locations' = Decrement(tasks[t].data.location_id)
                  /\ Goto(t, "insert")
             ELSE /\ Answer(t, "error")
                  /\ UNCHANGED locations
    /\ UNCHANGED <<variant, now, ledger, products, orders, stocked, lock,
                   fsm_state, fsm_data, ntasks, bitcoin_rate_cache>>

\* bot.py: the INSERT, committed on its own
cp_insert_bot(t) ==
    /\ variant = "bot"
    /\ At(t, "cp", "insert")
    /\ \E ok \in BOOLEAN :
          /\ Outcome(ok)
          /\ IF ok /\ References(tasks[t].data)
             THEN /\ orders' = Recorded(t)
                  /\ Goto(t, "content")
             ELSE /\ Answer(t, "error")
                  /\ UNCHANGED orders
    /\ UNCHANGED <<variant, now, ledger, products, locations, stocked, lock,
                   fsm_state, fsm_data, ntasks, bitcoin_rate_cache>>

\* tg_bot.py: BEGIN and the UPDATE, which waits for the row's lock and holds it
cp_update_tg(t) ==
    LET l == tasks[t].data.location_id
    IN  /\ variant = "tg_bot"
        /\ At(t, "cp", "update")
        /\ \/ /\ Outcome(FALSE)
              /\ Answer(t, "error")
              /\ UNCHANGED lock
           \/ /\ locations[l] = NoRow
              /\ Outcome(TRUE)
              /\ Goto(t, "insert")
              /\ UNCHANGED lock
           \/ /\ locations[l] # NoRow
              /\ Free(lock.loc[l], t)
              /\ Outcome(TRUE)
              /\ lock' = [lock EXCEPT !.loc[l] = t]
              /\ Goto(t, "insert")
        /\ UNCHANGED <<variant, now, ledger, products, locations, orders,
                       stocked, fsm_state, fsm_data, ntasks, bitcoin_rate_cache>>

\* tg_bot.py: the INSERT inside the transaction; its foreign-key check waits
\* for a FOR UPDATE lock on the referenced product; an error rolls back
cp_insert_tg(t) ==
    LET d == tasks[t].data
    IN  /\ variant = "tg_bot"
        /\ At(t, "cp", "insert")
        /\ \/ /\ Outcome(FALSE)
              /\ Answer(t, "error")
              /\ Release(t)
           \/ /\ ~References(d)
              /\ Outcome(TRUE)
              /\ Answer(t, "error")
              /\ Release(t)
           \/ /\ References(d)
              /\ Free(lock.prod[d.product_id], t)
              /\ Outcome(TRUE)
              /\ Goto(t, "commit")
              /\ UNCHANGED lock
        /\ UNCHANGED <<variant, now, ledger, products, locations, orders,
                       stocked, fsm_state, fsm_data, ntasks, bitcoin_rate_cache>>

\* tg_bot.py: COMMIT makes the decrement and the order visible together
cp_commit(t) ==
    /\ variant = "tg_bot"
    /\ At(t, "cp", "commit")
    /\ Release(t)
    /\ \E ok \in BOOLEAN :
          /\ Outcome(ok)
          /\ IF ok
             THEN /\ locations' = Decrement(tasks[t].data.location_id)
                  /\ orders' = Recorded(t)
                  /\ Goto(t, "content")
             ELSE /\ Answer(t, "error")
                  /\ UNCHANGED <<locations, orders>>
    /\ UNCHANGED <<variant, now, ledger, products, stocked, fsm_state,
                   fsm_data, ntasks, bitcoin_rate_cache>>

\* message.answer(the product's content) and the admins' notification, then
\* finally: conn.close(); state.finish()
cp_content(t) ==
    /\ At(t, "cp", "content")
    /\ \E ok \in BOOLEAN :
          /\ Outcome(ok)
          /\ Return(t, IF ok THEN "content" ELSE "error")
    /\ Finish(tasks[t].user)
    /\ UNCHANGED <<variant, now, ledger, products, locations, orders, stocked,
                   lock, ntasks, bitcoin_rate_cache>>

cp_close_all(t) ==
    /\ At(t, "cp", "close")
    /\ tasks' = [tasks EXCEPT ![t] = Done]
    /\ UNCHANGED outbox
    /\ fsm_state' = [u \in Users |-> None]
    /\ fsm_data' = [u \in Users |-> NoData]
    /\ UNCHANGED <<variant, now, ledger, products, locations, orders, stocked,
                   lock, ntasks, faults, bitcoin_rate_cache>>

\* the answer of an early return or of the except block, then
\* finally: conn.close(); state.finish()
cp_close(t) ==
    /\ At(t, "cp", "close")
    /\ tasks' = [tasks EXCEPT ![t] = Done]
    /\ UNCHANGED outbox
    /\ Finish(tasks[t].user)
    /\ UNCHANGED <<variant, now, ledger, products, locations, orders, stocked,
                   lock, ntasks, faults, bitcoin_rate_cache>>

\* ---------------------------------------------------- delete_product_finish
\* rows of orders that reference product p
Referencing(p) ==
    {i \in 1..Len(orders) : orders[i].product_id = p}

\* a transaction of a handler in flight holds a lock on product p or its rows
Locked(p) ==
    \/ lock.prod[p] # 0
    \/ \E l \in LocIds : /\ locations[l] # NoRow
                         /\ locations[l].product_id = p
                         /\ lock.loc[l] # 0
    \/ \E t \in TaskIds : At(t, "cp", "commit") /\ tasks[t].data.product_id = p

delete_product_cascading(u, p) ==
    /\ fsm_state[u] = None
    /\ products[p] # NoRow
    /\ ~Locked(p)
    /\ products' = [products EXCEPT ![p] = NoRow]
    /\ locations' = [l \in LocIds |->
                       IF locations[l] # NoRow /\ locations[l].product_id = p
                       THEN NoRow ELSE locations[l]]
    /\ orders' = SelectSeq(orders, LAMBDA o : o.product_id # p)
    /\ outbox' = [outbox EXCEPT ![u] = "deleted"]
    /\ UNCHANGED <<variant, now, ledger, stocked, lock, fsm_state,
                   fsm_data, tasks, ntasks, faults, bitcoin_rate_cache>>

\* the callback deleteprod_p sent by user u, whoever u is: DELETE FROM
\* products WHERE id = p, cascading to the product's locations, and the
\* answer to u; the statement fails while an order references the product
delete_product_finish(u, p) ==
    /\ fsm_state[u] = None
    /\ products[p] # NoRow
    /\ ~Locked(p)
    /\ Referencing(p) = {}
    /\ products' = [products EXCEPT ![p] = NoRow]
    /\ locations' = [l \in LocIds |->
                       IF locations[l] # NoRow /\ locations[l].product_id = p
                       THEN NoRow ELSE locations[l]]
    /\ outbox' = [outbox EXCEPT ![u] = "deleted"]
    /\ UNCHANGED <<variant, now, ledger, orders, stocked, lock, fsm_state,
                   fsm_data, tasks, ntasks, faults, bitcoin_rate_cache>>

\* ------------------------------------------------------------------- Next
Next ==
    \/ Pay
    \/ \E u \in Users, l \in LocIds : pls_start(u, l)
    \/ \E t \in TaskIds : pls_fetch_bot(t)
    \/ \E t \in TaskIds : pls_fetch_tg(t)
    \/ \E t \in TaskIds : pls_edit_bot(t)
    \/ \E t \in TaskIds : pls_edit_tg(t)
    \/ \E t \in TaskIds : pls_close(t)
    \/ \E u \in Users : cp_start(u)
    \/ \E t \in TaskIds : cp_connect(t)
    \/ \E t \in TaskIds : cp_fetch(t)
    \/ \E t \in TaskIds : cp_update_bot(t)
    \/ \E t \in TaskIds : cp_insert_bot(t)
    \/ \E t \in TaskIds : cp_update_tg(t)
    \/ \E t \in TaskIds : cp_insert_tg(t)
    \/ \E t \in TaskIds : cp_commit(t)
    \/ \E t \in TaskIds : cp_content(t)
    \/ \E t \in TaskIds : cp_close(t)
    \/ \E u \in Users, p \in ProdIds : delete_product_finish(u, p)

Spec == Init /\ [][Next]_vars

\* ---------------------------------------- check_bitcoin_payment on its own
MaxOut      == 2     \* outputs of a transaction at most
MaxVerifyTx == 2     \* transactions in the oracle's response at most

\* the amount as the handler hands it over: the DECIMAL column's value in
\* bot.py, float(amount_btc) in tg_bot.py
StoredAmount(a) == IF variant = "bot" THEN Exact(a) ELSE ToFloat(a)

VerifyNow   == PaymentWindow + 1
VerifyTimes == {0, 1}                 \* 7201 and 7200 seconds before VerifyNow
Outputs     == {Output(a, v) : a \in Addresses, v \in Amounts}
Outs        == UNION {[1..n -> Outputs] : n \in 1..MaxOut}
Txs         == {Tx(time, out) : time \in VerifyTimes, out \in Outs}
Ledgers     == UNION {[1..n -> Txs] : n \in 0..MaxVerifyTx}

\* one call of check_bitcoin_payment is about to be made, with any address
\* and amount, against any ledger
InitVerify ==
    /\ variant \in {"bot", "tg_bot"}
    /\ now = VerifyNow
    /\ ledger \in Ledgers
    /\ products = [p \in ProdIds |-> ProductRow(ListPrice, 0)]
    /\ stocked = [l \in LocIds |-> MaxQty]
    /\ locations = [l \in LocIds |-> LocationRow(1, stocked[l])]
    /\ orders = << >>
    /\ lock = [loc |-> [l \in LocIds |-> 0], prod |-> [p \in ProdIds |-> 0]]
    /\ fsm_state = [u \in Users |-> None]
    /\ fsm_data = [u \in Users |-> NoData]
    /\ \E address \in Addresses, amount \in Amounts :
          tasks = [t \in TaskIds |->
                     IF t = 1
                     THEN [NoTask EXCEPT !.h = "verify", !.pc = "call",
                             !.data = [OrderData(1, 1, StoredAmount(amount), 0)
                                         EXCEPT !.payment_address = address]]
                     ELSE NoTask]
    /\ ntasks = 1
    /\ faults = 0
    /\ outbox = [u \in Users |-> ""]
    /\ bitcoin_rate_cache = [rate |-> NoRate, last_updated |-> NoTime]

\* is_paid = check_bitcoin_payment(address, amount); the request succeeds or
\* raises
Poll(t) ==
    LET d == tasks[t].data
    IN  /\ At(t, "verify", "call")
        /\ \E resp \in {OracleError, OracleReply(ledger)} :
              tasks' = [tasks EXCEPT
                  ![t].pc = "done",
                  ![t].reply = IF resp.ok THEN "ok" ELSE "oracle_error",
                  ![t].paid = check_bitcoin_payment(resp, d.payment_address,
                                                    d.amount, now)]
        /\ UNCHANGED <<variant, now, ledger, products, locations, orders,
                       stocked, lock, fsm_state, fsm_data, ntasks, faults,
                       outbox, bitcoin_rate_cache>>

NextVerify == \E t \in TaskIds : Poll(t)

SpecVerify == InitVerify /\ [][NextVerify]_vars

\* ------------------------------------------- get_bitcoin_rate on its own
MaxWindows == 2      \* rate windows the clock runs through

TickerRates == Rates \cup {6}           \* what the ticker may answer
\* the instants at which something happens: the ends of the rate windows
\* and the seconds next to them
Instants    == {k * RateWindow + e : k \in 0..MaxWindows, e \in {-1, 0, 1}}
                  \cap Nat
Converted   == {"get_bitcoin_rate", "rub_to_btc", "btc_to_rub"}
RubAmount   == 2                        \* thousands of RUB handed to rub_to_btc

\* Decimal(str(btc_amount)) * rate under prec = 8, in 1e-8 thousands of RUB
BtcToRub(btc, rate) ==
    LET product == btc * rate
    IN  IF Digits(product) <= DecimalPrec THEN product
        ELSE RoundHalfEven(product, Pow10(Digits(product) - DecimalPrec))

\* what the function named fn returns when get_bitcoin_rate returned rate
Conversion(fn, rate) ==
    IF rate = NoRate THEN NoRate
    ELSE IF fn = "rub_to_btc" THEN RubToBtc(RubAmount, rate)
    ELSE IF fn = "btc_to_rub" THEN BtcToRub(ListPrice, rate)
    ELSE rate

InitRate ==
    /\ variant = "tg_bot"
    /\ now = 0
    /\ ledger = << >>
    /\ products = [p \in ProdIds |-> ProductRow(ListPrice, 0)]
    /\ stocked = [l \in LocIds |-> MaxQty]
    /\ locations = [l \in LocIds |-> LocationRow(1, stocked[l])]
    /\ orders = << >>
    /\ lock = [loc |-> [l \in LocIds |-> 0], prod |-> [p \in ProdIds |-> 0]]
    /\ fsm_state = [u \in Users |-> None]
    /\ fsm_data = [u \in Users |-> NoData]
    /\ tasks = [t \in TaskIds |-> NoTask]
    /\ ntasks = 0
    /\ faults = 0
    /\ outbox = [u \in Users |-> ""]
    /\ bitcoin_rate_cache = [rate |-> NoRate, last_updated |-> NoTime]

\* time passes
Tick ==
    /\ \E i \in Instants : i > now /\ now' = i
    /\ UNCHANGED <<variant, ledger, products, locations, orders, stocked, lock,
                   fsm_state, fsm_data, tasks, ntasks, faults, outbox,
                   bitcoin_rate_cache>>

\* one call of get_bitcoin_rate, directly or through rub_to_btc or
\* btc_to_rub; the ticker would answer `fetched` (NoRate: the request raises).
\* The call and what it returned are kept in tasks[1].
RateCall(fn, fetched) ==
    /\ bitcoin_rate_cache' = CacheAfter(fetched)
    /\ tasks' = [tasks EXCEPT ![1] =
          [NoTask EXCEPT !.h = fn, !.pc = "done",
             !.data = [at |-> now, fetched |-> fetched,
                       called |-> ~CacheFresh,
                       rate |-> RateReturned(fetched),
                       result |-> Conversion(fn, RateReturned(fetched))]]]
    /\ UNCHANGED <<variant, now, ledger, products, locations, orders, stocked,
                   lock, fsm_state, fsm_data, ntasks, faults, outbox>>

NextRate ==
    \/ Tick
    \/ \E fn \in Converted, fetched \in TickerRates \cup {NoRate} :
          RateCall(fn, fetched)

SpecRate == InitRate /\ [][NextRate]_vars

\* ------------------------------------------------ the admin's conversations
(* The admin sends one update at a time and waits for the answer, so every   *)
(* handler below runs alone and is one action.  tasks[1] keeps the handler   *)
(* that ran last, the text it was given, whether the connection or a         *)
(* repository call raised in it, and outbox the messages it sent.            *)
MaxDrafts == 2       \* product flows begun in one behaviour
MaxLines  == 2       \* lines of a locations message at most
Int32Max  == 2147483647

Admin      == "u1"
Categories == {1}
Texts      == {"a", "/cancel"}     \* names
Words      == {"a"}                \* descriptions and contents
PriceTexts == {"abc", "0", "-1", "0.5", "nan", "usd_button"}
DraftSteps == {"waiting_product_name", "waiting_product_description",
               "waiting_product_price", "waiting_product_content",
               "waiting_product_locations"}

\* float(text): raises ValueError, or a number, which may be nan
FloatOf(raises, nan, sat) == [raises |-> raises, nan |-> nan, sat |-> sat]
ParseFloat(text) ==
    CASE text = "0"   -> FloatOf(FALSE, FALSE, 0)
      [] text = "-1"  -> FloatOf(FALSE, FALSE, -Satoshi)
      [] text = "0.5" -> FloatOf(FALSE, FALSE, 50000000)
      [] text = "nan" -> FloatOf(FALSE, TRUE, 0)
      [] OTHER        -> FloatOf(TRUE, FALSE, 0)

\* price <= 0 on floats: every comparison with nan is false
NotPositive(x) == ~x.nan /\ x.sat <= 0

\* int(text.strip()): raises ValueError or an integer of any size; `fits`
\* says that it is in the range of the INTEGER column
IntOf(raises, value, fits) == [raises |-> raises, value |-> value, fits |-> fits]
ParseInt(text) ==
    CASE text = "0"           -> IntOf(FALSE, 0, TRUE)
      [] text = "1"           -> IntOf(FALSE, 1, TRUE)
      [] text = "99999999999" -> IntOf(FALSE, Int32Max, FALSE)
      [] OTHER                -> IntOf(TRUE, 0, TRUE)

\* one line of the locations message; eq: the line contains '='
Line(eq, name, quantity) == [eq |-> eq, name |-> name, quantity |-> quantity]
Lines == {Line(TRUE, "A", "1"), Line(TRUE, "B", "1"), Line(TRUE, "A", "0"),
          Line(TRUE, "A", "x"), Line(FALSE, "A", ""),
          Line(TRUE, "B", "99999999999")}
LinesTexts == UNION {[1..n -> Lines] : n \in 1..MaxLines}

\* the session's data while a product is drafted
NoPrice == FloatOf(TRUE, FALSE, 0)
NewDraft(c) == [category_id |-> c, name |-> "", description |-> "",
                price |-> NoPrice, content |-> ""]

\* rows of products and locations as add_product_locations inserts them;
\* `draft` is not a column: it names the flow that inserted the row
DraftRow(d, n) == [category_id |-> d.category_id, name |-> d.name,
                   price |-> d.price, draft |-> n]
StoredLine(pid, name, quantity) ==
    [product_id |-> pid, name |-> name, quantity |-> quantity]

\* the handler h was given text, sent the messages msgs, and the connection
\* or a repository call raised in it or not
Handled(h, text, raised, msgs) ==
    /\ tasks' = [tasks EXCEPT ![1] =
          [NoTask EXCEPT !.h = h, !.user = Admin, !.pc = "done",
                         !.data = [text |-> text, raised |-> raised],
                         !.reply = IF msgs = << >> THEN "" ELSE msgs[1]]]
    /\ outbox' = [outbox EXCEPT ![Admin] = msgs]

InitAdmin ==
    /\ variant \in {"bot", "tg_bot"}
    /\ now = 0
    /\ ledger = << >>
    /\ products = << >>
    /\ stocked = [l \in LocIds |-> 0]
    /\ locations = << >>
    /\ orders = << >>
    /\ lock = [loc |-> [l \in LocIds |-> 0], prod |-> [p \in ProdIds |-> 0]]
    /\ fsm_state = [u \in Users |-> None]
    /\ fsm_data = [u \in Users |-> NoData]
    /\ tasks = [t \in TaskIds |-> NoTask]
    /\ ntasks = 0
    /\ faults = 0
    /\ outbox = [u \in Users |-> << >>]
    /\ bitcoin_rate_cache = [rate |-> NoRate, last_updated |-> NoTime]

\* what no admin handler touches
AdminFrame == UNCHANGED <<variant, now, ledger, orders, stocked, lock,
                          bitcoin_rate_cache>>

\* add_category_start: the button "add category" in an idle session
add_category_start ==
    /\ fsm_state[Admin] = None
    /\ fsm_state' = [fsm_state EXCEPT ![Admin] = "waiting_category_name"]
    /\ Handled("add_category_start", "", FALSE, <<"prompt">>)
    /\ UNCHANGED <<products, locations, fsm_data, ntasks, faults>>
    /\ AdminFrame

\* edit_about_start: the button "edit about" in an idle session; the text is
\* read from shop_info, which may fail
edit_about_start ==
    /\ fsm_state[Admin] = None
    /\ \E ok \in BOOLEAN :
          /\ Outcome(ok)
          /\ IF ok
             THEN /\ fsm_state' = [fsm_state EXCEPT ![Admin] =
                                     "waiting_about_text"]
                  /\ fsm_data' = [fsm_data EXCEPT ![Admin] =
                                    [current_about |-> "about"]]
                  /\ Handled("edit_about_start", "", FALSE, <<"prompt">>)
             ELSE /\ UNCHANGED <<fsm_state, fsm_data>>
                  /\ Handled("edit_about_start", "", TRUE, <<"error">>)
    /\ UNCHANGED <<products, locations, ntasks>>
    /\ AdminFrame

\* add_category_finish and edit_about_finish: one statement; the connection
\* fails, the statement raises, or it succeeds; finally: state.finish() and
\* admin_panel()
admin_finish(step, text) ==
    /\ fsm_state[Admin] = step
    /\ step \in {"waiting_category_name", "waiting_about_text"}
    /\ \/ /\ Outcome(FALSE)
          /\ \/ Handled(step, text, TRUE, <<"db_error">>)
             \/ Handled(step, text, TRUE, <<"error", "panel">>)
             \/ /\ step = "waiting_category_name"
                /\ Handled(step, text, TRUE, <<"exists", "panel">>)
       \/ /\ Outcome(TRUE)
          /\ Handled(step, text, FALSE, <<"done", "panel">>)
    /\ Finish(Admin)
    /\ UNCHANGED <<products, locations, ntasks>>
    /\ AdminFrame

\* add_product_category: the button of category c in an idle session
add_product_category(c) ==
    /\ fsm_state[Admin] = None
    /\ ntasks < MaxDrafts
    /\ ntasks' = ntasks + 1
    /\ fsm_state' = [fsm_state EXCEPT ![Admin] = "waiting_product_name"]
    /\ fsm_data' = [fsm_data EXCEPT ![Admin] = NewDraft(c)]
    /\ Handled("add_product_category", "", FALSE, <<"prompt">>)
    /\ UNCHANGED <<products, locations, faults>>
    /\ AdminFrame

\* add_product_name, add_product_description and add_product_content store
\* the text under `field` and move to the step `next`
add_product_text(step, field, next, text) ==
    /\ fsm_state[Admin] = step
    /\ fsm_state' = [fsm_state EXCEPT ![Admin] = next]
    /\ fsm_data' = [fsm_data EXCEPT ![Admin] =
                      [fsm_data[Admin] EXCEPT ![field] = text]]
    /\ Handled(step, text, FALSE, <<"prompt">>)
    /\ UNCHANGED <<products, locations, ntasks, faults>>
    /\ AdminFrame

add_product_name(text) ==
    add_product_text("waiting_product_name", "name",
                     "waiting_product_description", text)

add_product_description_skipping(text) ==
    add_product_text("waiting_product_description", "description",
                     "waiting_product_content", text)

add_product_description(text) ==
    add_product_text("waiting_product_description", "description",
                     "waiting_product_price", text)

add_product_content(text) ==
    add_product_text("waiting_product_content", "content",
                     "waiting_product_locations", text)

\* the price step.  tg_bot.py gives the text of the USD button to
\* set_price_in_usd, which raises on AdminStates.waiting_product_price_usd, a
\* state the class does not declare; every other text goes to
\* add_product_price (add_product_price_btc in tg_bot.py)
add_product_price(text) ==
    LET price == ParseFloat(text)
    IN  /\ fsm_state[Admin] = "waiting_product_price"
        /\ IF variant = "tg_bot" /\ text = "usd_button"
           THEN /\ Handled("set_price_in_usd", text, FALSE, << >>)
                /\ UNCHANGED <<fsm_state, fsm_data>>
           ELSE IF price.raises \/ NotPositive(price)
                THEN /\ Handled("waiting_product_price", text, FALSE,
                                <<"bad_price">>)
                     /\ UNCHANGED <<fsm_state, fsm_data>>
                ELSE /\ Handled("waiting_product_price", text, FALSE,
                                <<"prompt">>)
                     /\ fsm_state' = [fsm_state EXCEPT ![Admin] =
                                        "waiting_product_content"]
                     /\ fsm_data' = [fsm_data EXCEPT ![Admin] =
                                       [fsm_data[Admin] EXCEPT !.price = price]]
        /\ UNCHANGED <<products, locations, ntasks, faults>>
        /\ AdminFrame

\* UNIQUE(category_id, name) and UNIQUE(product_id, name)
ProductExists(d) ==
    \E i \in 1..Len(products) :
        products[i].category_id = d.category_id /\ products[i].name = d.name

LocationExists(locs, pid, name) ==
    \E i \in 1..Len(locs) : locs[i].product_id = pid /\ locs[i].name = name

RECURSIVE StoreLines(_, _, _, _, _)
(* The loop over the lines from line i on, for product pid, with the table   *)
(* of locations at locs; the INSERT of line failAt loses the connection.     *)
(* Result: the table, the exception that left the loop ("none", "unique" or  *)
(* "error"), and whether an INSERT raised.  An INSERT whose quantity is out  *)
(* of the column's range raises asyncpg's DataError, a ValueError, which the *)
(* loop's `except ValueError: pass` swallows like a failed int().            *)
StoreLines(lines, i, pid, locs, failAt) ==
    IF i > Len(lines) THEN [locs |-> locs, left |-> "none", raised |-> FALSE]
    ELSE
      LET line == lines[i]
          quantity == ParseInt(line.quantity)
          rest(table) == StoreLines(lines, i + 1, pid, table, failAt)
      IN  IF ~line.eq \/ quantity.raises \/ quantity.value <= 0
          THEN rest(locs)
          ELSE IF i = failAt
          THEN [locs |-> locs, left |-> "error", raised |-> TRUE]
          ELSE IF ~quantity.fits
          THEN [rest(locs) EXCEPT !.raised = TRUE]
          ELSE IF LocationExists(locs, pid, line.name)
          THEN [locs |-> locs, left |-> "unique", raised |-> TRUE]
          ELSE rest(Append(locs, StoredLine(pid, line.name, quantity.value)))

\* INSERT INTO products: tg_bot.py names the column price_usd, which the
\* table does not have, so its statement always raises
ProductInsert(d, lost) ==
    IF lost \/ variant = "tg_bot" THEN "error"
    ELSE IF ProductExists(d) THEN "unique"
    ELSE "none"

\* the message for the exception that left the try block
Report(left) ==
    CASE left = "none"   -> "added"
      [] left = "unique" -> "exists"
      [] OTHER           -> "error"

\* add_product_locations: the connection, the product's INSERT, the loop,
\* the answer; finally: state.finish() and admin_panel().  failAt says which
\* awaited call loses the connection: -1 the connect, 0 the product's
\* INSERT, i the INSERT of line i, Len(lines) + 1 none.
add_product_locations(lines) ==
    LET d == fsm_data[Admin]
        step == "waiting_product_locations"
    IN  /\ fsm_state[Admin] = step
        /\ \E failAt \in -1..(Len(lines) + 1) :
              LET inserted == ProductInsert(d, failAt = 0)
                  pid == Len(products) + 1
                  loop == StoreLines(lines, 1, pid, locations, failAt)
              IN  /\ Outcome(failAt = Len(lines) + 1)
                  /\ IF failAt = -1
                     THEN /\ Handled(step, lines, TRUE, <<"db_error">>)
                          /\ UNCHANGED <<products, locations>>
                     ELSE IF inserted # "none"
                     THEN /\ Handled(step, lines, TRUE,
                                     <<Report(inserted), "panel">>)
                          /\ UNCHANGED <<products, locations>>
                     ELSE /\ products' = Append(products, DraftRow(d, ntasks))
                          /\ locations' = loop.locs
                          /\ Handled(step, lines, loop.raised,
                                     <<Report(loop.left), "panel">>)
        /\ Finish(Admin)
        /\ UNCHANGED ntasks
        /\ AdminFrame

NextAdmin ==
    \/ add_category_start
    \/ edit_about_start
    \/ \E step \in {"waiting_category_name", "waiting_about_text"},
          text \in Texts : admin_finish(step, text)
    \/ \E c \in Categories : add_product_category(c)
    \/ \E text \in Texts : add_product_name(text)
    \/ \E text \in Words : add_product_description(text)
    \/ \E text \in PriceTexts \cup Texts : add_product_price(text)
    \/ \E text \in Words : add_product_content(text)
    \/ \E lines \in LinesTexts : add_product_locations(lines)

SpecAdmin == InitAdmin /\ [][NextAdmin]_vars

\* ------------------------------------- two locations of one product, locked
(* tg_bot.py is the file that locks rows: SELECT ... FROM locations l JOIN   *)
(* products p ... FOR UPDATE locks the location's row and the product's row. *)
(* Here product 1 has two locations and buyers select and settle them.       *)
Shelf == {1, 2}

InitLocks ==
    /\ variant = "tg_bot"
    /\ now = 0
    /\ ledger = << >>
    /\ products = [p \in ProdIds |-> ProductRow(ListPrice, 0)]
    /\ stocked = [l \in Shelf |-> MaxQty]
    /\ locations = [l \in Shelf |-> LocationRow(1, stocked[l])]
    /\ orders = << >>
    /\ lock = [loc |-> [l \in Shelf |-> 0], prod |-> [p \in ProdIds |-> 0]]
    /\ fsm_state = [u \in Users |-> None]
    /\ fsm_data = [u \in Users |-> NoData]
    /\ tasks = [t \in TaskIds |-> NoTask]
    /\ ntasks = 0
    /\ faults = 0
    /\ outbox = [u \in Users |-> ""]
    /\ bitcoin_rate_cache = [rate |-> NoRate, last_updated |-> NoTime]

NextLocks ==
    \/ Pay
    \/ \E u \in Users, l \in Shelf : pls_start(u, l)
    \/ \E t \in TaskIds : pls_fetch_tg(t)
    \/ \E t \in TaskIds : pls_edit_tg(t)
    \/ \E t \in TaskIds : pls_close(t)
    \/ \E u \in Users : cp_start(u)
    \/ \E t \in TaskIds : cp_connect(t)
    \/ \E t \in TaskIds : cp_update_tg(t)
    \/ \E t \in TaskIds : cp_insert_tg(t)
    \/ \E t \in TaskIds : cp_commit(t)
    \/ \E t \in TaskIds : cp_content(t)
    \/ \E t \in TaskIds : cp_close(t)

SpecLocks == InitLocks /\ [][NextLocks]_vars

\* -------------------------------------------- the oracle and the event loop
(* requests.get() is an ordinary blocking call made inside a coroutine: from *)
(* the request to the response the thread of the event loop is inside it,    *)
(* and no coroutine of any handler is resumed.  A handler here is reduced to *)
(* its steps around the oracle: it awaits the connection, calls the oracle   *)
(* (check_bitcoin_payment in check_payment, get_bitcoin_rate in the          *)
(* process_location_selection of tg_bot.py), and answers.                    *)
LoopFree == \A t \in TaskIds : tasks[t].pc # "oracle"

InitOracle ==
    /\ variant \in {"bot", "tg_bot"}
    /\ now = 0
    /\ ledger = << >>
    /\ products = [p \in ProdIds |-> ProductRow(ListPrice, 0)]
    /\ stocked = [l \in LocIds |-> MaxQty]
    /\ locations = [l \in LocIds |-> LocationRow(1, stocked[l])]
    /\ orders = << >>
    /\ lock = [loc |-> [l \in LocIds |-> 0], prod |-> [p \in ProdIds |-> 0]]
    /\ fsm_state \in [Users -> {None, "waiting_payment"}]
    /\ fsm_data = [u \in Users |->
                     IF fsm_state[u] = None THEN NoData
                     ELSE OrderData(1, 1, StoredAmount(ListPrice), 0)]
    /\ tasks = [t \in TaskIds |-> NoTask]
    /\ ntasks = 0
    /\ faults = 0
    /\ outbox = [u \in Users |-> ""]
    /\ bitcoin_rate_cache = [rate |-> NoRate, last_updated |-> NoTime]

\* an update of user u is taken up: check_payment when the session waits for
\* the payment, else process_location_selection, which asks the oracle in
\* tg_bot.py only; the handler awaits its connection
update_start(u) ==
    /\ LoopFree
    /\ CanStart
    /\ fsm_state[u] = None => variant = "tg_bot"
    /\ ntasks' = ntasks + 1
    /\ tasks' = [tasks EXCEPT ![ntasks + 1] =
          [NoTask EXCEPT !.h = IF fsm_state[u] = None THEN "pls" ELSE "cp",
                         !.user = u, !.pc = "connect", !.data = fsm_data[u]]]
    /\ UNCHANGED <<variant, now, ledger, products, locations, orders, stocked,
                   lock, fsm_state, fsm_data, faults, outbox,
                   bitcoin_rate_cache>>

\* the handler is resumed and comes to the oracle: requests.get(url) begins,
\* unless get_bitcoin_rate finds its cache fresh
oracle_call(t) ==
    /\ LoopFree
    /\ tasks[t].pc = "connect"
    /\ tasks' = [tasks EXCEPT ![t].pc =
                   IF tasks[t].h = "pls" /\ CacheFresh THEN "answer"
                   ELSE "oracle",
                 ![t].reply = IF tasks[t].h = "pls" THEN "quote" ELSE @]
    /\ UNCHANGED <<variant, now, ledger, products, locations, orders, stocked,
                   lock, fsm_state, fsm_data, ntasks, faults, outbox,
                   bitcoin_rate_cache>>

\* requests.get returns or raises, however late
oracle_return(t) ==
    /\ tasks[t].pc = "oracle"
    /\ IF tasks[t].h = "pls"
       THEN \E fetched \in Rates \cup {NoRate} :
              /\ Outcome(fetched # NoRate)
              /\ bitcoin_rate_cache' = CacheAfter(fetched)
              /\ tasks' = [tasks EXCEPT ![t].pc = "answer",
                    ![t].reply = IF RateReturned(fetched) = NoRate
                                 THEN "rate_error" ELSE "quote"]
       ELSE \E resp \in {OracleError, OracleReply(ledger)} :
              LET d == tasks[t].data
                  is_paid == check_bitcoin_payment(resp, d.payment_address,
                                                   d.amount, now)
              IN  /\ Outcome(resp.ok)
                  /\ UNCHANGED bitcoin_rate_cache
                  /\ tasks' = [tasks EXCEPT ![t].pc = "answer",
                                            ![t].paid = is_paid,
                                            ![t].reply = "no_payment"]
    /\ UNCHANGED <<variant, now, ledger, products, locations, orders, stocked,
                   lock, fsm_state, fsm_data, ntasks, outbox>>

\* the handler is resumed, answers and ends
handler_answer(t) ==
    /\ LoopFree
    /\ tasks[t].pc = "answer"
    /\ Return(t, tasks[t].reply)
    /\ UNCHANGED <<variant, now, ledger, products, locations, orders, stocked,
                   lock, fsm_state, fsm_data, ntasks, faults,
                   bitcoin_rate_cache>>

NextOracle ==
    \/ \E u \in Users : update_start(u)
    \/ \E t \in TaskIds : oracle_call(t)
    \/ \E t \in TaskIds : oracle_return(t)
    \/ \E t \in TaskIds : handler_answer(t)

SpecOracle == InitOracle /\ [][NextOracle]_vars

\* ------------------------------------------------------------- properties
\* orders recorded against location l
OrdersFor(l) ==
    Cardinality({i \in 1..Len(orders) : orders[i].location_id = l})

\* task t takes the step
Acted(t) == tasks'[t] # tasks[t]

\* tx is at most PaymentWindow seconds old and pays at least sat satoshi to
\* address
Qualifies(tx, address, sat, clock) ==
    /\ clock - tx.time <= PaymentWindow
    /\ \E j \in 1..Len(tx.out) :
          tx.out[j].addr = address /\ tx.out[j].value >= sat

\* C1: no oversell -- a location stocked with q units has at most q orders
\* recorded against it, and its quantity never drops below 0.
C1_NoOversell ==
    \A l \in LocIds :
        /\ OrdersFor(l) <= stocked[l]
        /\ locations[l] # NoRow => locations[l].quantity >= 0

\* C2: settlement is all-or-nothing -- whenever no check_payment is under
\* way, the orders recorded for a location are as many as the units
\* decremented from it.
C2_AllOrNothing ==
    (\A t \in InFlight : tasks[t].h # "cp") =>
        \A l \in LocIds :
            locations[l] # NoRow =>
                OrdersFor(l) = stocked[l] - locations[l].quantity

\* C3: one verified payment yields at most one settlement -- the orders never
\* outnumber the transactions that pay the shop's wallet within the window.
C3_OneSettlementPerPayment ==
    Len(orders) <=
        Cardinality({i \in 1..Len(ledger) :
                        Qualifies(ledger[i], BITCOIN_WALLET, 1, now)})

\* C4: idempotent re-confirm -- a check_payment started by a message that
\* arrived after its selection was settled records no order and decrements
\* no stock.
C4_IdempotentReconfirm ==
    [][\A t \in TaskIds :
          (tasks[t].h = "cp" /\ tasks[t].resent /\ Acted(t)) =>
              (orders' = orders /\ locations' = locations)]_vars

\* C5: a settlement that finds the location's quantity at 0 aborts -- no
\* step of a check_payment changes a quantity that is 0.
C5_AbortWhenSoldOut ==
    [][\A l \in LocIds, t \in TaskIds :
          (/\ tasks[t].h = "cp" /\ Acted(t)
           /\ locations[l] # NoRow /\ locations[l].quantity = 0) =>
              locations'[l] = locations[l]]_vars

\* C6: at most one handler invocation is in flight per session.
C6_OneHandlerPerSession ==
    \A u \in Users : Cardinality({t \in InFlight : tasks[t].user = u}) <= 1

\* C7: a step of a check_payment whose verification has not confirmed payment
\* leaves every location's quantity and the orders table unchanged and sends
\* no content.
C7_UnpaidCheckNoEffect ==
    [][\A t \in TaskIds :
          (tasks[t].h = "cp" /\ Acted(t) /\ ~tasks[t].paid /\ ~tasks'[t].paid) =>
              /\ locations' = locations
              /\ orders' = orders
              /\ outbox'[tasks[t].user] = "content" =>
                    outbox[tasks[t].user] = "content"]_vars

\* a check_payment has answered that no payment was found, the oracle having
\* reported an old transaction or none
C7_Witness ==
    \E t \in TaskIds :
        /\ At(t, "cp", "close")
        /\ tasks[t].reply = "no_payment"
        /\ ~tasks[t].paid
        /\ orders = << >>

\* C8: polling -- when a check_payment that answered "no payment" ends, the
\* session is still in waiting_payment and holds the order fields.
C8_PollKeepsSession ==
    [][\A t \in TaskIds :
          (At(t, "cp", "close") /\ tasks[t].reply = "no_payment"
              /\ tasks'[t] = Done) =>
              /\ fsm_state'[tasks[t].user] = "waiting_payment"
              /\ fsm_data'[tasks[t].user] = tasks[t].data]_vars

\* C9: a quantity decreases only in a step of a check_payment whose
\* verification returned true, and content reaches a user only in such a step
\* taken after that check_payment's order row was recorded.
C9_OnlyPaidSettles ==
    [][/\ \A l \in LocIds :
            (/\ locations[l] # NoRow
             /\ locations'[l] # NoRow
             /\ locations'[l].quantity < locations[l].quantity) =>
                \E t \in TaskIds :
                    tasks[t].h = "cp" /\ Acted(t) /\ tasks[t].paid
       /\ \A u \in Users :
            (outbox'[u] = "content" /\ outbox[u] # "content") =>
                \E t \in TaskIds :
                    /\ tasks[t].h = "cp" /\ tasks[t].user = u
                    /\ Acted(t) /\ tasks[t].paid
                    /\ \E i \in 1..Len(orders) : orders[i].by = t]_vars

\* a buyer has received the content: the order is recorded and the unit gone
C9_Witness ==
    \E u \in Users :
        /\ outbox[u] = "content"
        /\ \E i \in 1..Len(orders) :
              /\ orders[i].user_id = u
              /\ locations[orders[i].location_id] # NoRow
              /\ locations[orders[i].location_id].quantity
                    < stocked[orders[i].location_id]

\* C10: check_bitcoin_payment returns true exactly when the oracle answered
\* and reports a transaction at most 7200 seconds old with an output to the
\* address of at least the amount.
C10_TrueIffQualifying ==
    \A t \in TaskIds :
        At(t, "verify", "done") =>
            (tasks[t].paid <=>
                /\ tasks[t].reply = "ok"
                /\ \E i \in 1..Len(ledger) :
                      Qualifies(ledger[i], tasks[t].data.payment_address,
                                tasks[t].data.amount.sat, now))

\* the cache was filled less than RateWindow seconds ago
FilledLately ==
    /\ bitcoin_rate_cache.last_updated # NoTime
    /\ now - bitcoin_rate_cache.last_updated < RateWindow

C12_FailureIsUnavailable ==
    [][(Acted(1) /\ ~FilledLately /\ tasks'[1].data.fetched = NoRate) =>
          /\ tasks'[1].data.rate = NoRate
          /\ tasks'[1].data.result = NoRate
          /\ bitcoin_rate_cache' = bitcoin_rate_cache]_vars

\* rub_to_btc was called with an expired rate in the cache and the ticker
\* failing
C12_Witness ==
    /\ tasks[1].h = "rub_to_btc"
    /\ tasks[1].data.fetched = NoRate
    /\ tasks[1].data.result = NoRate
    /\ bitcoin_rate_cache.last_updated # NoTime
    /\ now - bitcoin_rate_cache.last_updated >= RateWindow

\* ------------------------------------------------- the admin's product flow
\* the text the handler of the step just taken was given
Given == tasks'[1].data.text

\* a price text that is not a number, or a number that is not above 0
InvalidPrice(text) ==
    LET price == ParseFloat(text)
    IN  price.raises \/ price.nan \/ price.sat <= 0

\* C13: at the price step of the product flow an invalid price (not a number,
\* or <= 0) leaves the session at the price step with the collected fields
\* unchanged, writes nothing to the tables and sends the re-prompt; a valid
\* price moves the session to the content step.
C13_InvalidPriceReprompts ==
    [][fsm_state[Admin] = "waiting_product_price" =>
         IF InvalidPrice(Given)
         THEN /\ fsm_state'[Admin] = "waiting_product_price"
              /\ fsm_data' = fsm_data
              /\ products' = products /\ locations' = locations
              /\ outbox'[Admin] = <<"bad_price">>
         ELSE fsm_state'[Admin] = "waiting_product_content"]_vars

\* a handler that takes the session to Idle, drops the collected fields and
\* writes nothing, without any failure of the connection
Cancelled ==
    /\ NextAdmin
    /\ fsm_state'[Admin] = None
    /\ fsm_data'[Admin] = NoData
    /\ products' = products /\ locations' = locations
    /\ faults' = faults

\* C14: at every non-idle step of a conversation some input cancels it: the
\* session returns to Idle, the collected fields are dropped and nothing is
\* written to the tables.
C14_CancelFromEveryStep ==
    fsm_state[Admin] # None => ENABLED Cancelled

\* the handlers registered for a state that open a connection
StateKeyed == {"waiting_category_name", "waiting_about_text",
               "waiting_product_locations"}
Failures == {"db_error", "error", "exists"}

\* C15: when the connection cannot be opened or a repository call raises in
\* add_category_finish, edit_about_finish or add_product_locations, the
\* handler leaves the session Idle and its answer is a failure message.
C15_FailureEndsIdleWithMessage ==
    [][tasks'[1].h \in StateKeyed /\ tasks'[1].data.raised =>
         /\ fsm_state'[Admin] = None
         /\ outbox'[Admin] # << >>
         /\ outbox'[Admin][1] \in Failures]_vars

\* the lines of a locations message that name a location and a quantity
\* above 0
ValidLine(line) ==
    /\ line.eq
    /\ ~ParseInt(line.quantity).raises
    /\ ParseInt(line.quantity).value > 0

Valid(lines) == {i \in 1..Len(lines) : ValidLine(lines[i])}

\* the step stored the draft's product and one location for each valid line
AllStored(lines) ==
    LET pid == Len(products) + 1
        added == {j \in 1..Len(locations') : j > Len(locations)}
    IN  /\ Len(products') = pid
        /\ products'[pid].draft = ntasks
        /\ Cardinality(added) = Cardinality(Valid(lines))
        /\ \A i \in Valid(lines) : \E j \in added :
              /\ locations'[j].product_id = pid
              /\ locations'[j].name = lines[i].name

NothingStored == products' = products /\ locations' = locations

\* C16: add_product_locations stores the product with every valid location
\* line, or, when an INSERT fails, neither the product nor any location.
C16_ProductAllOrNothing ==
    [][fsm_state[Admin] = "waiting_product_locations" =>
         AllStored(Given) \/ NothingStored]_vars

\* C17: a locations message without any valid 'Name=Quantity' line leaves the
\* session at the locations step, creates no product row and is answered by
\* the prompt for the locations.
C17_NoValidLineReprompts ==
    [][fsm_state[Admin] = "waiting_product_locations" /\ Valid(Given) = {} =>
         /\ fsm_state'[Admin] = "waiting_product_locations"
         /\ products' = products
         /\ outbox'[Admin] = <<"prompt">>]_vars

\* the rows of the product flow n: its product and its product's locations
RowsOf(n) ==
    LET ps == {i \in 1..Len(products) : products[i].draft = n}
    IN  [products |-> ps,
         locations |-> {j \in 1..Len(locations) :
                           locations[j].product_id \in ps}]

Selecting(t) == tasks[t].h = "pls" /\ tasks'[t] # tasks[t]

\* an update of an idle session is accepted: process_location_selection
\* begins
Selected == ntasks' = ntasks + 1 /\ tasks'[ntasks'].h \in {"pls", "none"}

\* C19: no step of process_location_selection changes a quantity or the
\* orders table: selecting a location reserves nothing.
C19_SelectionReservesNothing ==
    [][Selected \/ (\E t \in TaskIds : Selecting(t)) =>
         locations' = locations /\ orders' = orders]_vars

\* both users wait for the payment of the location's last unit
C19_Witness ==
    /\ \A u \in Users :
          /\ fsm_state[u] = "waiting_payment"
          /\ fsm_data[u] # NoData
          /\ fsm_data[u].location_id = 1
    /\ locations[1] # NoRow
    /\ locations[1].quantity = 1
    /\ orders = << >>

\* the row of location l is missing or its quantity is not above 0
Gone(l) == locations[l] = NoRow \/ locations[l].quantity <= 0

\* C20: when process_location_selection reads a location that is missing or
\* whose quantity is 0 or less, it answers 'not available', goes no further
\* and changes neither the state nor the data of a session; the session of
\* its user is Idle and holds no payment field.
C20_UnavailableStoresNothing ==
    [][\A t \in TaskIds :
          At(t, "pls", "fetch") /\ Selecting(t) /\ Gone(tasks[t].loc)
              /\ faults' = faults =>
            /\ outbox'[tasks[t].user] = "unavailable"
            /\ tasks'[t].pc \in {"done", "close"}
            /\ fsm_state' = fsm_state
            /\ fsm_data' = fsm_data
            /\ fsm_state'[tasks[t].user] = None
            /\ fsm_data'[tasks[t].user] = NoData]_vars

\* ------------------------------------------ settlement of a deleted product
\* C21: when the location or the product of the selection has been deleted,
\* a check_payment whose payment was verified inserts no order, changes no
\* quantity, never reaches the message with the content, answers the user
\* with a failure message and ends with the session Idle.
C21_DeletedProductNotSettled ==
    [][\A t \in TaskIds :
          LET d == tasks[t].data
              u == tasks[t].user
          IN  /\ tasks[t].h = "cp" /\ tasks[t].paid
              /\ tasks'[t] # tasks[t]
              /\ \/ products[d.product_id] = NoRow
                 \/ locations[d.location_id] = NoRow
              =>
              /\ orders' = orders
              /\ locations' = locations
              /\ tasks'[t].pc \notin {"commit", "content"}
              /\ tasks'[t].pc = "close" =>
                    /\ tasks'[t].reply \in {"not_found", "error"}
                    /\ outbox'[u] = tasks'[t].reply
              /\ tasks[t].pc = "close" => fsm_state'[u] = None]_vars

\* a check_payment that verified the payment found the product deleted and
\* answered so, without any failure of a connection
C21_Witness ==
    \E t \in TaskIds :
        /\ At(t, "cp", "close")
        /\ tasks[t].paid
        /\ products[tasks[t].data.product_id] = NoRow
        /\ tasks[t].reply \in {"not_found", "error"}
        /\ outbox[tasks[t].user] = tasks[t].reply
        /\ faults = 0
        /\ orders = << >>

\* ------------------------------------------------------ sessions are apart
\* C22: the state and the data of a session change only in a step of a
\* handler that runs for that session's user: handling an update of one
\* session changes nothing of another.
C22_OtherSessionsUntouched ==
    [][\A v \in Users :
          fsm_state'[v] # fsm_state[v] \/ fsm_data'[v] # fsm_data[v] =>
            \E t \in InFlight : tasks[t].user = v /\ tasks'[t] # tasks[t]]_vars

\* u1 waits for its payment with its fields stored while an update of u2 was
\* handled and answered
C22_Witness ==
    /\ fsm_state["u1"] = "waiting_payment"
    /\ fsm_data["u1"] # NoData
    /\ fsm_state["u2"] = None
    /\ fsm_data["u2"] = NoData
    /\ outbox["u2"] # ""

\* --------------------------------------------- nothing held across a wait
\* C23: a row lock (and with it the transaction that took it) is held only by
\* a handler in flight: a session with no handler in flight, waiting for its
\* user's next update, holds no lock of a location or of a product.
C23_NoLockAcrossWait ==
    /\ \A l \in LocIds : lock.loc[l] # 0 => lock.loc[l] \in InFlight
    /\ \A p \in ProdIds : lock.prod[p] # 0 => lock.prod[p] \in InFlight

\* tg_bot.py: a selection locked the rows, quoted and ended; its session
\* waits for the payment, no handler is in flight and no lock is held
C23_Witness ==
    /\ variant = "tg_bot"
    /\ \E u \in Users : fsm_state[u] = "waiting_payment"
    /\ InFlight = {}
    /\ \A l \in LocIds : lock.loc[l] = 0
    /\ \A p \in ProdIds : lock.prod[p] = 0

\* ------------------------------------------------- the scope of exclusion
\* C24: a selection or a settlement waits only for a handler that works on
\* the same location: the holder of a lock that a handler's next statement
\* needs is that handler itself or a handler of the same location.
C24_ExclusionPerLocation ==
    \A t \in InFlight :
        LET LocOf(x) == IF tasks[x].h = "pls" THEN tasks[x].loc
                        ELSE tasks[x].data.location_id
            l == LocOf(t)
            p == locations[l].product_id
            needed ==
                IF At(t, "pls", "fetch") THEN {lock.loc[l], lock.prod[p]}
                ELSE IF At(t, "cp", "update") THEN {lock.loc[l]}
                ELSE IF At(t, "cp", "insert") THEN {lock.prod[p]}
                ELSE {}
        IN  \A holder \in needed \ {0, t} : LocOf(holder) = l

\* ------------------------------------------------------- a slow oracle call
\* C25: while a handler is inside its call of the oracle, an update of
\* another session can be taken up and a handler of another session that is
\* ready to go on can go on.
C25_SlowOracleDelaysOneSession ==
    \A t \in TaskIds :
        tasks[t].pc = "oracle" =>
          /\ \A u \in Users \ {tasks[t].user} :
                CanStart /\ (fsm_state[u] = None => variant = "tg_bot")
                  => ENABLED update_start(u)
          /\ \A o \in InFlight :
                tasks[o].user # tasks[t].user /\ tasks[o].pc # "oracle"
                  => ENABLED (oracle_call(o) \/ handler_answer(o))

\* ------------------------------------------------------ orders stay written
\* C26: the orders table only grows: every row written stays at its place
\* with all its fields, whatever the program does afterwards, the deletion
\* of its product included.
C26_OrdersAppendOnly ==
    [][/\ Len(orders') >= Len(orders)
       /\ \A i \in 1..Len(orders) : orders'[i] = orders[i]]_vars

\* a second order was written after the first, which is still there, and
\* the product both refer to is still in its table
C26_Witness ==
    /\ Len(orders) = 2
    /\ orders[1].by # orders[2].by
    /\ products[orders[1].product_id] # NoRow

\* ------------------------------------------------- the fields of a session
\* C27: a session that is Idle holds no collected field.
C27_IdleHasNoFields ==
    \A u \in Users : fsm_state[u] = None => fsm_data[u] = NoData

\* C28: a session at waiting_payment holds the fields check_payment reads:
\* product_id, location_id, payment_address and the amount.
C28_FieldsPresentAtStep ==
    \A u \in Users :
        fsm_state[u] = "waiting_payment" =>
            {"product_id", "location_id", "payment_address", "amount"}
                \subseteq DOMAIN fsm_data[u]

\* ------------------------------------------------------- who may administer
\* C29: the catalog is changed by admins only: a step that deletes a product
\* or a location is the handling of an admin's update, answered to that
\* admin and to nobody else.  Admin is the one user listed in ADMIN_IDS.
C29_OnlyAdminsChangeCatalog ==
    [][\/ products' # products
       \/ \E l \in LocIds : locations[l] # NoRow /\ locations'[l] = NoRow
       =>
       /\ outbox'[Admin] = "deleted"
       /\ \A v \in Users \ {Admin} : outbox'[v] = outbox[v]]_vars

\* ------------------------------------------------- no rate at the selection
\* C30: when process_location_selection of tg_bot.py finds the location in
\* stock but gets no rate (cache not fresh, ticker request failed), it sends
\* the rate error instead of a quote, goes straight to its exit, and changes
\* no session's state or data, no quantity and no order.
C30_NoRateNoQuote ==
    [][\A t \in TaskIds :
          /\ variant = "tg_bot"
          /\ At(t, "pls", "fetch") /\ tasks'[t] # tasks[t]
          /\ ~Gone(tasks[t].loc)
          /\ ~CacheFresh /\ bitcoin_rate_cache' = bitcoin_rate_cache
          /\ tasks'[t].pc # "done"
          =>
          /\ outbox'[tasks[t].user] = "rate_error"
          /\ tasks'[t].pc = "close"
          /\ fsm_state' = fsm_state /\ fsm_data' = fsm_data
          /\ locations' = locations /\ orders' = orders]_vars

\* a selection was answered with the rate error; its session is Idle and
\* holds no field
C30_Witness ==
    \E t \in TaskIds :
        /\ At(t, "pls", "close")
        /\ tasks[t].reply = "rate_error"
        /\ outbox[tasks[t].user] = "rate_error"
        /\ fsm_state[tasks[t].user] = None
        /\ fsm_data[tasks[t].user] = NoData
        /\ bitcoin_rate_cache.rate = NoRate


\* ------------------------------------------------------- the declared steps
\* C31: every step a session is put in is one that AdminStates or UserStates
\* declares; in tg_bot.py the USD button pressed at the price step is answered
\* with a prompt and puts the session in a declared step other than the
\* BTC price step, the one that takes the fiat price.
C31_StepsAreDeclared ==
    [][LET Declared ==
               DraftSteps \cup
               {"waiting_category_name", "waiting_about_text",
                "waiting_payment"} \cup
               (IF variant = "tg_bot" THEN {"waiting_product_price_rub"}
                ELSE {})
       IN  /\ fsm_state'[Admin] \in Declared \cup {None}
           /\ variant = "tg_bot" /\ fsm_state[Admin] = "waiting_product_price"
              /\ Given = "usd_button"
              => /\ fsm_state'[Admin] \in Declared \ {"waiting_product_price"}
                 /\ outbox'[Admin] = <<"prompt">>]_vars

\* -------------------------------------------------- the order of the steps
\* C32: the product flow goes through its steps in the order name,
\* description, price, content, locations, Idle: a handler leaves the session
\* at its step or moves it to the next one, the name step is entered from
\* Idle only, and a text that is valid for its step moves the session to the
\* next step.
C32_StepsInOrder ==
    [][LET Following(step) ==
               CASE step = "waiting_product_name" ->
                        "waiting_product_description"
                 [] step = "waiting_product_description" ->
                        "waiting_product_price"
                 [] step = "waiting_product_price" ->
                        "waiting_product_content"
                 [] step = "waiting_product_content" ->
                        "waiting_product_locations"
                 [] step = "waiting_product_locations" -> None
       IN  /\ fsm_state[Admin] \in DraftSteps =>
                fsm_state'[Admin] \in {fsm_state[Admin],
                                       Following(fsm_state[Admin])}
           /\ fsm_state'[Admin] = "waiting_product_name"
              /\ fsm_state[Admin] # "waiting_product_name"
              => fsm_state[Admin] = None
           /\ fsm_state[Admin] \in DraftSteps \ {"waiting_product_price"}
              => fsm_state'[Admin] = Following(fsm_state[Admin])
           /\ fsm_state[Admin] = "waiting_product_price"
              /\ Given = "0.5"
              => fsm_state'[Admin] = "waiting_product_content"]_vars

\* a product flow went through all its steps: the locations step stored the
\* product and the session is Idle again
C32_Witness ==
    /\ tasks[1].h = "waiting_product_locations"
    /\ ~tasks[1].data.raised
    /\ fsm_state[Admin] = None
    /\ products # << >>

\* --------------------------------------------- one flow at a time per session
\* C33: process_location_selection, registered without a state, begins for
\* Idle sessions only, and while a session is at a step no step of a
\* process_location_selection changes the session's step or its fields: a
\* second flow does not overwrite the fields of the flow in progress.
C33_StepOwnsSession ==
    [][/\ ntasks' = ntasks + 1 /\ tasks'[ntasks'].h = "pls"
          => fsm_state[tasks'[ntasks'].user] = None
       /\ \A t \in TaskIds :
             Selecting(t) /\ fsm_state[tasks[t].user] # None
             => /\ fsm_state'[tasks[t].user] = fsm_state[tasks[t].user]
                /\ fsm_data'[tasks[t].user] = fsm_data[tasks[t].user]]_vars

\* ------------------------------------------------- the cache is one pair
\* C35: rate is unset exactly when last_updated is unset, before and after
\* every step; a call whose ticker request fails leaves both fields as they
\* were; last_updated never decreases.
C35_CacheIsAPair ==
    [][/\ bitcoin_rate_cache.rate = NoRate <=>
             bitcoin_rate_cache.last_updated = NoTime
       /\ bitcoin_rate_cache'.rate = NoRate <=>
             bitcoin_rate_cache'.last_updated = NoTime
       /\ bitcoin_rate_cache'.last_updated >= bitcoin_rate_cache.last_updated
       /\ tasks'[1] # tasks[1] /\ tasks'[1].data.called
          /\ tasks'[1].data.fetched = NoRate
          => bitcoin_rate_cache' = bitcoin_rate_cache]_vars

\* the cache was filled, expired, and a call asked the ticker in vain: rate
\* and last_updated are those of the first fill
C35_Witness ==
    /\ tasks[1].h \in Converted
    /\ tasks[1].data.called /\ tasks[1].data.fetched = NoRate
    /\ bitcoin_rate_cache.rate # NoRate
    /\ bitcoin_rate_cache.last_updated # NoTime
    /\ now - bitcoin_rate_cache.last_updated >= RateWindow

\* ------------------------------------------------- one amount per order
\* C34: the amount written in an order row is the amount quoted at the
\* selection, as the settling check_payment read it from the session, and the
\* payment was verified against exactly that amount.
C34_OneAmount ==
    [][\A i \in 1..Len(orders') :
          i > Len(orders) =>
             LET d == tasks[orders'[i].by].data
             IN  /\ orders'[i].sel = d.sel
                 /\ orders'[i].amount = d.amount.sat
                 /\ d.amount = Exact(orders'[i].amount)]_vars

==============================================================================
